---- MODULE Spec2Model ----
(***************************************************************************)
(* Conversational RAG pipeline of RAG_DevKaluri.                           *)
(*                                                                         *)
(*   langchain_helper.py  the one-node LangGraph workflow (call_model),    *)
(*                        its MemorySaver checkpointer and                 *)
(*                        execute_user_query                               *)
(*   api_server.py        the FastAPI endpoints /chat, /chatbot, /ask and  *)
(*                        /chat/batch                                      *)
(*   main.py              the Streamlit script                             *)
(*                                                                         *)
(* The API server and the Streamlit app are two processes                  *)
(* (start_servers.py), each with its own MemorySaver.  Spec is the API     *)
(* server process: its handlers are "async def" and call the blocking      *)
(* execute_user_query on the event loop, so one request is handled at a    *)
(* time.  SpecUI is the Streamlit process: every browser session runs the  *)
(* script in a thread of its own, and all of them share the module-level   *)
(* app and memory of langchain_helper.                                     *)
(*                                                                         *)
(* Strings are sequences of characters, so that len() and strip() are      *)
(* computed and not assumed.                                               *)
(***************************************************************************)
EXTENDS Integers, Sequences, FiniteSets, TLC

\* ------------------------------------------------------------------ bounds
\* Turns that may commit in one run of the process (the history is unbounded
\* in the code); at the bound a turn can only fail.
MaxTurns == 2
\* Longest batch whose items are enumerated freely.
MaxBatchLen == 2
\* Longest st.session_state.messages of a Streamlit session.
MaxMessages == 4

\* --------------------------------------------------------------- constants
None == "None"
THREAD_ID == "abc123"
BATCH_LIMIT == 10
MIN_LENGTH == 1
MAX_LENGTH == 1000

ThreadIds == {THREAD_ID, "s1", "s2"}
SessionIds == {None, "s1", "s2"}
API == "api"
Sessions == {"u1", "u2"}
Workers == {API} \cup Sessions

\* Request texts: empty, whitespace only, and a plain question.
Questions == {<<>>, <<" ">>, <<"a">>}
\* A question one character over the maximum of QueryRequest.
LongQuestion == [i \in 1..(MAX_LENGTH + 1) |-> "a"]
\* The (question, session_id) pairs sent to /chat, /chatbot and /ask: every
\* text, the plain question under either session, the others with or without
\* a session_id.
Requests ==
    {[question |-> <<>>, session_id |-> None],
     [question |-> <<" ">>, session_id |-> "s1"],
     [question |-> <<"a">>, session_id |-> "s1"],
     [question |-> <<"a">>, session_id |-> "s2"],
     [question |-> LongQuestion, session_id |-> None]}
\* What the generative model may return as an answer.
Answers == {<<>>, <<"x">>}
\* What the retriever may return: no chunk, or one chunk.
Contexts == {<<>>, <<"c1">>}
\* The standalone question the model may return for an input.
Reformulations(q) == {q, <<"r">>}

\* The items a batch is freely made of, and the batches sent: every short one
\* of them, one with an item that is not a QueryRequest, and one at and one
\* over the limit.
BatchItems ==
    {[question |-> <<"a">>, session_id |-> "s1"],
     [question |-> <<" ">>, session_id |-> "s2"]}
Batches ==
    UNION {[1..n -> BatchItems] : n \in 0..MaxBatchLen}
    \cup {<<[question |-> <<>>, session_id |-> None]>>}
    \cup {[i \in 1..n |-> [question |-> <<"a">>, session_id |-> "s1"]] :
            n \in {BATCH_LIMIT, BATCH_LIMIT + 1}}
\* The text of an exception
ErrorText == <<"E">>

\* ----------------------------------------------------------------- helpers
RECURSIVE lstrip(_)
lstrip(s) == IF s # <<>> /\ Head(s) = " " THEN lstrip(Tail(s)) ELSE s

RECURSIVE rstrip(_)
rstrip(s) ==
    IF s # <<>> /\ s[Len(s)] = " " THEN rstrip(SubSeq(s, 1, Len(s) - 1)) ELSE s

\* str.strip()
strip(s) == rstrip(lstrip(s))

\* Python truthiness of a str / of an Optional[str]
Truthy(s) == s # <<>>

HumanMessage(text) == [type |-> "human", content |-> text]
AIMessage(text) == [type |-> "ai", content |-> text]

\* Faulty variant of add_messages: the update is put in front of the history.
add_messages_prepend(left, right) == right \o left

\* The reducer of the chat_history channel.  The messages built by call_model
\* carry no id, so each gets a fresh one and is appended.
add_messages(left, right) == left \o right

\* A thread without checkpoint: every channel empty.
EmptyState == [input |-> <<>>, chat_history |-> <<>>, context |-> <<>>, answer |-> <<>>]

\* An invocation: the channel values it works on, and what its chains were
\* given: query, the text the retriever searched for; reformulations, the
\* calls of the model made to reformulate the input, and standalone, what the
\* last of them returned; asked, the question put to the answering chain.
IdleTurn ==
    [pc |-> "idle", input |-> <<>>, chat_history |-> <<>>, query |-> <<>>,
     context |-> <<>>, answer |-> <<>>, reformulations |-> 0,
     standalone |-> <<>>, asked |-> <<>>]

IdleReq ==
    [pc |-> "idle", endpoint |-> "none", question |-> <<>>, session_id |-> None,
     items |-> <<>>, results |-> <<>>, code |-> 0, raised |-> 0,
     status |-> "none", answer |-> <<>>, calls |-> 0, cancelled |-> FALSE]

VARIABLES
    memory,     \* MemorySaver: thread id -> latest checkpoint (channel values)
    turn,       \* per caller: the app.invoke in progress
    req,        \* API server: the request being handled and its response
    log,        \* history variable: the turns execute_user_query has answered
    messages,   \* Streamlit: st.session_state.messages of each session
    ui          \* Streamlit: position of each session's script run

vars == <<memory, turn, req, log, messages, ui>>

Init ==
    /\ memory = [t \in ThreadIds |-> EmptyState]
    /\ turn = [w \in Workers |-> IdleTurn]
    /\ req = IdleReq
    /\ log = <<>>
    /\ messages = [s \in Sessions |-> <<>>]
    /\ ui = [s \in Sessions |-> "idle"]

\* ------------------------------------------------------ the workflow (app)
\* app.invoke({"input": q}, config): the checkpoint of THREAD_ID is loaded, the
\* input is written to its channel and checkpointed, and the node is entered.
InvokeTurn(w, q) ==
    [IdleTurn EXCEPT !.pc = "contextualizing", !.input = q,
                     !.chat_history = memory[THREAD_ID].chat_history]

InvokeMemory(q) == [memory EXCEPT ![THREAD_ID].input = q]

\* Faulty variant of Contextualize: the model's standalone question is
\* dropped and the retriever is given the input.
ContextualizeRawQuery(w) ==
    /\ turn[w].pc = "contextualizing"
    /\ IF turn[w].chat_history = <<>>
       THEN turn' = [turn EXCEPT ![w].pc = "retrieving", ![w].query = turn[w].input]
       ELSE \E sq \in Reformulations(turn[w].input) :
               turn' = [turn EXCEPT ![w].pc = "retrieving", ![w].query = turn[w].input,
                                    ![w].standalone = sq,
                                    ![w].reformulations = @ + 1]
    /\ UNCHANGED <<memory, req, log, messages, ui>>

\* Faulty variant of Contextualize: the model is asked to reformulate also when
\* there is no history.
ContextualizeAlways(w) ==
    /\ turn[w].pc = "contextualizing"
    /\ \E sq \in Reformulations(turn[w].input) :
          turn' = [turn EXCEPT ![w].pc = "retrieving", ![w].query = sq,
                               ![w].standalone = sq,
                               ![w].reformulations = @ + 1]
    /\ UNCHANGED <<memory, req, log, messages, ui>>

\* history_aware_retriever: with an empty chat_history the input goes to the
\* retriever as it is; otherwise the model reformulates it and its output
\* goes to the retriever.
Contextualize(w) ==
    /\ turn[w].pc = "contextualizing"
    /\ IF turn[w].chat_history = <<>>
       THEN turn' = [turn EXCEPT ![w].pc = "retrieving", ![w].query = turn[w].input]
       ELSE \E sq \in Reformulations(turn[w].input) :
               turn' = [turn EXCEPT ![w].pc = "retrieving", ![w].query = sq,
                                    ![w].standalone = sq,
                                    ![w].reformulations = @ + 1]
    /\ UNCHANGED <<memory, req, log, messages, ui>>

\* retriever: similarity search, possibly without result.
Retrieve(w) ==
    /\ turn[w].pc = "retrieving"
    /\ \E docs \in Contexts :
          turn' = [turn EXCEPT ![w].pc = "synthesizing", ![w].context = docs]
    /\ UNCHANGED <<memory, req, log, messages, ui>>

\* Turns that have an answer and are not yet in the log.
Answering == Cardinality({w \in Workers : turn[w].pc \in {"writing", "committed"}})

\* Faulty variant of QuestionForAnswer: the standalone question is asked.
QuestionForAnswerStandalone(state) == state.query

\* create_retrieval_chain hands the invocation's own dict, with the retrieved
\* context added, to the answering chain, whose template asks "{input}".
QuestionForAnswer(state) == state.input

\* Faulty variant of Synthesize: no answer is made without retrieved context.
SynthesizeNeedsContext(w) ==
    /\ turn[w].pc = "synthesizing"
    /\ turn[w].context # <<>>
    /\ Len(log) + Answering < MaxTurns
    /\ \E a \in Answers :
          turn' = [turn EXCEPT ![w].pc = "writing", ![w].answer = a,
                               ![w].asked = QuestionForAnswer(turn[w])]
    /\ UNCHANGED <<memory, req, log, messages, ui>>

\* answer_question_chain: the model answers; rag_chain.invoke returns.
Synthesize(w) ==
    /\ turn[w].pc = "synthesizing"
    /\ Len(log) + Answering < MaxTurns
    /\ \E a \in Answers :
          turn' = [turn EXCEPT ![w].pc = "writing", ![w].answer = a,
                               ![w].asked = QuestionForAnswer(turn[w])]
    /\ UNCHANGED <<memory, req, log, messages, ui>>

\* Faulty variant of call_model: the standalone question is recorded in place
\* of the input.
call_model_query(state) ==
    [chat_history |-> <<HumanMessage(state.query), AIMessage(state.answer)>>,
     context |-> state.context,
     answer |-> state.answer]

\* The update call_model returns.
call_model(state) ==
    [chat_history |-> <<HumanMessage(state.input), AIMessage(state.answer)>>,
     context |-> state.context,
     answer |-> state.answer]

\* Faulty variant of ApplyWrites: chat_history is overwritten by the update, as
\* a channel without reducer would be.
ApplyWritesReplace(state, update) ==
    [input |-> state.input,
     chat_history |-> update.chat_history,
     context |-> update.context,
     answer |-> update.answer]

\* The channel values after the node's update is applied to the values this
\* invocation loaded.
ApplyWrites(state, update) ==
    [input |-> state.input,
     chat_history |-> add_messages(state.chat_history, update.chat_history),
     context |-> update.context,
     answer |-> update.answer]

\* The graph applies the update and saves the checkpoint of THREAD_ID.
Commit(w) ==
    /\ turn[w].pc = "writing"
    /\ memory' = [memory EXCEPT ![THREAD_ID] = ApplyWrites(turn[w], call_model(turn[w]))]
    /\ turn' = [turn EXCEPT ![w].pc = "committed"]
    /\ UNCHANGED <<req, log, messages, ui>>

\* Faulty variant of StageFail: the failing turn has already recorded its
\* Human message.
StageFailPartial(w) ==
    /\ \/ turn[w].pc = "contextualizing" /\ turn[w].chat_history # <<>>
       \/ turn[w].pc \in {"retrieving", "synthesizing"}
    /\ turn' = [turn EXCEPT ![w].pc = "failed"]
    /\ memory' = [memory EXCEPT ![THREAD_ID].chat_history =
                        Append(@, HumanMessage(turn[w].input))]
    /\ UNCHANGED <<req, log, messages, ui>>

\* A stage raises (model or store error): the exception leaves app.invoke.
\* Contextualization calls the model only when there is history.
StageFail(w) ==
    /\ \/ turn[w].pc = "contextualizing" /\ turn[w].chat_history # <<>>
       \/ turn[w].pc \in {"retrieving", "synthesizing"}
    /\ turn' = [turn EXCEPT ![w].pc = "failed"]
    /\ UNCHANGED <<memory, req, log, messages, ui>>

\* execute_user_query returns result["answer"], the answer channel of the
\* values this invocation ended with.
execute_user_query(w) == ApplyWrites(turn[w], call_model(turn[w])).answer

\* History variable: execute_user_query has answered the caller's question.
Answered(sid, w) ==
    Append(log, [session_id |-> sid, question |-> turn[w].input,
                 answer |-> execute_user_query(w)])

\* --------------------------------------------------------------- API server
\* QueryRequest.question: Field(..., min_length=1, max_length=1000)
QueryRequest(q) == Len(q) >= MIN_LENGTH /\ Len(q) <= MAX_LENGTH

NewReq(endpoint, q, sid) ==
    [IdleReq EXCEPT !.endpoint = endpoint, !.question = q, !.session_id = sid]

\* The request body fails validation: FastAPI answers 422 and the handler is
\* not entered.
ValidationError(r) == [r EXCEPT !.pc = "responded", !.code = 422, !.status = "error"]

\* raise HTTPException(status_code): the registered handler builds a dict that
\* carries exc.status_code.  A dict is not a response object, so the server
\* cannot send it and the client is answered 500.
http_exception_handler(r, status_code) ==
    [r EXCEPT !.pc = "responded", !.code = 500, !.raised = status_code,
              !.status = "error"]

\* A value returned by a handler is sent with status 200.
Returned(r, st, a) ==
    [r EXCEPT !.pc = "responded", !.code = 200, !.status = st, !.answer = a]

\* The handler calls execute_user_query(q).
Execute(r, q) ==
    /\ req' = [r EXCEPT !.pc = "running", !.calls = r.calls + 1]
    /\ turn' = [turn EXCEPT ![API] = InvokeTurn(API, q)]
    /\ memory' = InvokeMemory(q)
    /\ UNCHANGED <<log, messages, ui>>

\* The handler is left without a call of execute_user_query.
Reply(r) ==
    /\ req' = r
    /\ UNCHANGED <<memory, turn, log, messages, ui>>

\* execute_user_query has returned or raised in the handler of `endpoint`.
Finished(endpoint) ==
    /\ req.pc = "running"
    /\ req.endpoint = endpoint
    /\ turn[API].pc \in {"committed", "failed"}

\* The handler goes on after execute_user_query with response r.
Finish(r) ==
    /\ req' = r
    /\ log' = IF turn[API].pc = "committed" THEN Answered(req.session_id, API) ELSE log
    /\ turn' = [turn EXCEPT ![API] = IdleTurn]
    /\ UNCHANGED <<memory, messages, ui>>

\* POST /chat, up to the call of execute_user_query
ChatReceive(q, sid) ==
    /\ req.pc = "idle"
    /\ LET r == NewReq("chat", q, sid) IN
       IF ~QueryRequest(q) THEN Reply(ValidationError(r))
       ELSE IF strip(q) = <<>> THEN Reply(http_exception_handler(r, 400))
       ELSE Execute(r, q)

\* POST /chat, after execute_user_query
ChatRespond ==
    /\ Finished("chat")
    /\ IF turn[API].pc = "failed" \/ ~Truthy(execute_user_query(API))
       THEN Finish(http_exception_handler(req, 500))
       ELSE Finish(Returned(req, "success", execute_user_query(API)))

\* GET/POST /chatbot, up to the call of execute_user_query.  body: the
\* question comes in a JSON body (a QueryRequest) and not as a query parameter;
\* a missing query parameter is the empty text here, both are falsy.
ChatbotReceive(q, sid, body) ==
    /\ req.pc = "idle"
    /\ LET r == NewReq("chatbot", q, sid) IN
       IF body /\ ~QueryRequest(q) THEN Reply(ValidationError(r))
       ELSE IF ~Truthy(q) \/ ~Truthy(strip(q)) THEN Reply(Returned(r, "error", <<>>))
       ELSE Execute(r, q)

\* Faulty variant of ChatbotRespond: the except branch is missing, a failed
\* turn is answered like an answered one.
ChatbotRespondNoExcept ==
    /\ Finished("chatbot")
    /\ IF turn[API].pc # "failed" /\ ~Truthy(execute_user_query(API))
       THEN Finish(Returned(req, "error", <<>>))
       ELSE Finish(Returned(req, "success", execute_user_query(API)))

\* GET/POST /chatbot, after execute_user_query
ChatbotRespond ==
    /\ Finished("chatbot")
    /\ IF turn[API].pc = "failed" \/ ~Truthy(execute_user_query(API))
       THEN Finish(Returned(req, "error", <<>>))
       ELSE Finish(Returned(req, "success", execute_user_query(API)))

\* GET /ask, up to the call of execute_user_query
AskReceive(q, sid) ==
    /\ req.pc = "idle"
    /\ LET r == NewReq("ask", q, sid) IN
       IF ~Truthy(strip(q)) THEN Reply(http_exception_handler(r, 400))
       ELSE Execute(r, q)

\* GET /ask, after execute_user_query
AskRespond ==
    /\ Finished("ask")
    /\ IF turn[API].pc = "failed"
       THEN Finish(http_exception_handler(req, 500))
       ELSE Finish(Returned(req, "success", execute_user_query(API)))

\* Faulty variant of BatchReceive: the limit is tested with >=.
BatchReceiveOffByOne(items) ==
    /\ req.pc = "idle"
    /\ LET r == [IdleReq EXCEPT !.endpoint = "batch", !.items = items] IN
       IF \E i \in 1..Len(items) : ~QueryRequest(items[i].question)
       THEN Reply(ValidationError(r))
       ELSE IF Len(items) >= BATCH_LIMIT THEN Reply(http_exception_handler(r, 400))
       ELSE Reply([r EXCEPT !.pc = "running"])

\* POST /chat/batch, up to the loop
BatchReceive(items) ==
    /\ req.pc = "idle"
    /\ LET r == [IdleReq EXCEPT !.endpoint = "batch", !.items = items] IN
       IF \E i \in 1..Len(items) : ~QueryRequest(items[i].question)
       THEN Reply(ValidationError(r))
       ELSE IF Len(items) > BATCH_LIMIT THEN Reply(http_exception_handler(r, 400))
       ELSE Reply([r EXCEPT !.pc = "running"])

\* The handler of /chat/batch is between two items, or after the last.
BatchAtLoop ==
    /\ req.pc = "running"
    /\ req.endpoint = "batch"
    /\ turn[API].pc = "idle"

\* Faulty variant of BatchItem: the items are taken from the end of the list.
BatchItemReversed ==
    /\ BatchAtLoop
    /\ Len(req.results) < Len(req.items)
    /\ Execute(req, req.items[Len(req.items) - Len(req.results)].question)

\* POST /chat/batch: for req in requests, execute_user_query(req.question)
BatchItem ==
    /\ BatchAtLoop
    /\ Len(req.results) < Len(req.items)
    /\ Execute(req, req.items[Len(req.results) + 1].question)

\* The QueryResponse of a batch item
QueryResponse(item, st, a) ==
    [question |-> item.question, session_id |-> item.session_id, status |-> st,
     answer |-> a]

\* POST /chat/batch: execute_user_query has returned or raised for an item;
\* its response is appended.
BatchResult ==
    /\ Finished("batch")
    /\ LET item == req.items[Len(req.results) + 1]
           res == IF turn[API].pc = "failed"
                    THEN QueryResponse(item, "error", ErrorText)
                    ELSE QueryResponse(item, "success", execute_user_query(API))
       IN /\ req' = [req EXCEPT !.results = Append(@, res)]
          /\ log' = IF turn[API].pc = "committed"
                      THEN Answered(item.session_id, API) ELSE log
    /\ turn' = [turn EXCEPT ![API] = IdleTurn]
    /\ UNCHANGED <<memory, messages, ui>>

\* POST /chat/batch: return responses
BatchRespond ==
    /\ BatchAtLoop
    /\ Len(req.results) = Len(req.items)
    /\ Reply(Returned(req, "success", <<>>))

\* The client of the POST /chat in flight disconnects while a stage is running.
\* The handler does not ask for it and the event loop is held by the turn:
\* nothing but the connection changes.
Disconnect ==
    /\ req.pc = "running"
    /\ req.endpoint = "chat"
    /\ ~req.cancelled
    /\ turn[API].pc \in {"contextualizing", "retrieving", "synthesizing"}
    /\ req' = [req EXCEPT !.cancelled = TRUE]
    /\ UNCHANGED <<memory, turn, log, messages, ui>>

\* The response has been sent.
Close ==
    /\ req.pc = "responded"
    /\ req' = IdleReq
    /\ UNCHANGED <<memory, turn, log, messages, ui>>

Pipeline(w) ==
    \/ Contextualize(w)
    \/ Retrieve(w)
    \/ Synthesize(w)
    \/ Commit(w)
    \/ StageFail(w)

Next ==
    \/ \E r \in Requests : ChatReceive(r.question, r.session_id)
    \/ ChatRespond
    \/ \E r \in Requests, body \in BOOLEAN : ChatbotReceive(r.question, r.session_id, body)
    \/ ChatbotRespond
    \/ \E r \in Requests : AskReceive(r.question, r.session_id)
    \/ AskRespond
    \/ \E items \in Batches : BatchReceive(items)
    \/ BatchItem
    \/ BatchResult
    \/ BatchRespond
    \/ Disconnect
    \/ Close
    \/ Pipeline(API)

Spec == Init /\ [][Next]_vars

\* The steps that are code of the server itself (handlers, the checkpoint
\* write, the pass of the input to the retriever on an empty history): once
\* begun they end.  The retriever (embedding and search, run in process) and
\* the generative model are called without timeout: llm is built with model
\* and key only, the chains and app.invoke are given none, so nothing makes
\* these calls return.
Local ==
    \/ ChatRespond
    \/ ChatbotRespond
    \/ AskRespond
    \/ BatchItem
    \/ BatchResult
    \/ BatchRespond
    \/ Close
    \/ Commit(API)
    \/ (turn[API].chat_history = <<>> /\ Contextualize(API))

SpecLive == Init /\ [][Next]_vars /\ WF_vars(Local)

\* ------------------------------------------------------------ Streamlit app
Message(role, content) == [role |-> role, content |-> content]

\* A script run of session s in which st.chat_input returns q (nothing
\* submitted is the empty text here, both are falsy): the user message is
\* recorded and execute_user_query is called.
UiSubmit(s, q) ==
    /\ ui[s] = "idle"
    /\ Len(messages[s]) + 2 <= MaxMessages
    /\ IF Truthy(q)
       THEN /\ messages' = [messages EXCEPT ![s] = Append(@, Message("user", q))]
            /\ ui' = [ui EXCEPT ![s] = "running"]
            /\ turn' = [turn EXCEPT ![s] = InvokeTurn(s, q)]
            /\ memory' = InvokeMemory(q)
       ELSE UNCHANGED <<messages, ui, turn, memory>>
    /\ UNCHANGED <<req, log>>

\* execute_user_query has returned: the response is shown and recorded.
UiRespond(s) ==
    /\ ui[s] = "running"
    /\ turn[s].pc = "committed"
    /\ messages' = [messages EXCEPT ![s] = Append(@, Message("assistant", execute_user_query(s)))]
    /\ log' = Answered(None, s)
    /\ turn' = [turn EXCEPT ![s] = IdleTurn]
    /\ ui' = [ui EXCEPT ![s] = "idle"]
    /\ UNCHANGED <<memory, req>>

\* execute_user_query has raised: nothing catches it, the script run ends.
UiError(s) ==
    /\ ui[s] = "running"
    /\ turn[s].pc = "failed"
    /\ turn' = [turn EXCEPT ![s] = IdleTurn]
    /\ ui' = [ui EXCEPT ![s] = "idle"]
    /\ UNCHANGED <<memory, req, log, messages>>

NextUI ==
    \/ \E s \in Sessions, q \in Questions : UiSubmit(s, q)
    \/ \E s \in Sessions : UiRespond(s)
    \/ \E s \in Sessions : UiError(s)
    \/ \E s \in Sessions : Pipeline(s)

SpecUI == Init /\ [][NextUI]_vars

\* ------------------------------------------------------------------ claims
\* The chat_history of the thread every turn runs on.
History == memory[THREAD_ID].chat_history

\* The history a sequence of answered turns makes: Human, AI per turn.
RECURSIVE PairsOf(_)
PairsOf(l) ==
    IF l = <<>> THEN <<>>
    ELSE <<HumanMessage(l[1].question), AIMessage(l[1].answer)>> \o PairsOf(Tail(l))

RECURSIVE OfSession(_, _)
OfSession(l, sid) ==
    IF l = <<>> THEN <<>>
    ELSE (IF l[1].session_id = sid THEN <<l[1]>> ELSE <<>>) \o OfSession(Tail(l), sid)

LastTwo(h) == SubSeq(h, Len(h) - 1, Len(h))

\* The session_id of the request (or batch item) whose turn is running.
CurrentSession ==
    IF req.endpoint = "batch"
    THEN req.items[Len(req.results) + 1].session_id
    ELSE req.session_id

\* C1: when the n turns answered so far are all the turns made (none has
\* committed without its answer being returned yet), chat_history has exactly
\* 2n entries: Human(question), AI(answer) of each turn, in the order the
\* turns were made.
C1_HistoryIsTurnsInOrder ==
    turn[API].pc # "committed" =>
        /\ Len(History) = 2 * Len(log)
        /\ \A i \in 1..Len(log) :
              /\ History[2 * i - 1] = HumanMessage(log[i].question)
              /\ History[2 * i] = AIMessage(log[i].answer)

C1_Witness ==
    /\ req.pc = "idle"
    /\ Len(log) = 2
    /\ log[1].answer # log[2].answer

\* C2: a turn that has failed has left the persisted chat_history as it was
\* when the turn loaded it.
C2_FailedTurnLeavesHistory ==
    turn[API].pc = "failed" => History = turn[API].chat_history

C2_Witness ==
    /\ turn[API].pc = "failed"
    /\ turn[API].query # <<>>
    /\ History # <<>>

\* C3: the history a turn loads is made of the earlier turns of the same
\* session_id and of no other, on /chat, /chatbot, /ask and /chat/batch.
C3_SessionsAreIsolated ==
    (req.pc = "running" /\ turn[API].pc # "idle") =>
        turn[API].chat_history = PairsOf(OfSession(log, CurrentSession))

\* C4: once no turn is in flight, no answered turn's update is lost or torn:
\* chat_history holds the contiguous (Human, AI) pair of every answered turn
\* and nothing else.
C4_NoUpdateLost ==
    (\A s \in Sessions : turn[s].pc = "idle") =>
        /\ Len(History) = 2 * Len(log)
        /\ \A i \in 1..Len(log) : \E j \in 1..Len(log) :
              /\ History[2 * j - 1] = HumanMessage(log[i].question)
              /\ History[2 * j] = AIMessage(log[i].answer)

\* C5: after a completed turn with input q and answer a the last two entries
\* of chat_history are Human(q), AI(a), and a is the value the caller gets:
\* the response of /chat, /chatbot and /ask carries it.
C5_LastTwoAreTheTurn ==
    /\ turn[API].pc = "committed" =>
          /\ LastTwo(History) = <<HumanMessage(turn[API].input), AIMessage(turn[API].answer)>>
          /\ execute_user_query(API) = turn[API].answer
    /\ (req.pc = "responded" /\ req.status = "success" /\ req.endpoint # "batch") =>
          LastTwo(History) = <<HumanMessage(req.question), AIMessage(req.answer)>>

C5_Witness ==
    /\ req.pc = "responded"
    /\ req.status = "success"
    /\ req.endpoint = "chat"
    /\ Len(History) = 4

\* C6: no turn runs on an empty or whitespace-only question.
C6_BlankNeverStartsTurn ==
    \A w \in Workers : turn[w].pc # "idle" => Truthy(strip(turn[w].input))

\* C7: a POST to /chat with the empty question is answered 400 and runs no
\* turn.
C7_EmptyChatIs400 ==
    (req.pc = "responded" /\ req.endpoint = "chat" /\ req.question = <<>>) =>
        (req.code = 400 /\ req.calls = 0)

\* C8: a batch of more than 10 items is rejected with no call of the pipeline,
\* no result and no change of the stored state; a batch of 10 items (each a
\* valid QueryRequest) is answered with its 10 results.
C8_State ==
    req.endpoint = "batch" =>
        /\ Len(req.items) > BATCH_LIMIT =>
              /\ req.pc = "responded"
              /\ req.status = "error"
              /\ req.calls = 0
              /\ req.results = <<>>
              /\ turn[API].pc = "idle"
        /\ (/\ Len(req.items) = BATCH_LIMIT
            /\ \A i \in 1..Len(req.items) : QueryRequest(req.items[i].question)
            /\ req.pc = "responded") =>
              /\ req.status = "success"
              /\ Len(req.results) = BATCH_LIMIT

C8_Step ==
    (req'.endpoint = "batch" /\ Len(req'.items) > BATCH_LIMIT) =>
        (memory' = memory /\ turn' = turn /\ log' = log)

C8_BatchOverLimitRejected == [](C8_State) /\ [][C8_Step]_vars

C8_Witness ==
    /\ req.endpoint = "batch"
    /\ Len(req.items) = BATCH_LIMIT + 1
    /\ req.pc = "responded"
    /\ History # <<>>

\* C9: the response to a batch of k <= 10 items has k results, result i
\* echoing question and session_id of item i, and the result of an item whose
\* question is empty or whitespace-only has status "error".
C9_BatchResults ==
    (req.pc = "responded" /\ req.endpoint = "batch" /\ Len(req.items) <= BATCH_LIMIT) =>
        /\ Len(req.results) = Len(req.items)
        /\ \A i \in 1..Len(req.results) :
              /\ req.results[i].question = req.items[i].question
              /\ req.results[i].session_id = req.items[i].session_id
              /\ ~Truthy(strip(req.items[i].question)) => req.results[i].status = "error"

\* C10: while a turn is in flight in the API server, another request can be
\* taken up and start its turn.
C10_AnotherTurnCanStart ==
    (req.pc = "running" /\ turn[API].pc \in {"contextualizing", "retrieving", "synthesizing"}) =>
        ENABLED (\E r \in Requests : ChatReceive(r.question, r.session_id))

\* C11: a handler that takes up a failed turn reports status "error" (and
\* /chat and /ask a status code other than 200); a handler that takes up a
\* turn answered with a non-empty text on an empty retrieved context reports
\* status "success".
C11_Step ==
    (req.pc = "running" /\ turn[API].pc \in {"failed", "committed"} /\ turn'[API].pc = "idle") =>
        LET reported == IF req.endpoint = "batch"
                          THEN req'.results[Len(req'.results)].status
                          ELSE req'.status
        IN /\ turn[API].pc = "failed" =>
                 /\ reported = "error"
                 /\ req.endpoint \in {"chat", "ask"} => req'.code # 200
           /\ (/\ turn[API].pc = "committed"
               /\ turn[API].context = <<>>
               /\ Truthy(turn[API].answer)) => reported = "success"

C11_FailureIsReported == [][C11_Step]_vars

C11_Witness ==
    /\ req.pc = "responded"
    /\ req.endpoint = "chatbot"
    /\ req.calls = 1
    /\ req.status = "error"
    /\ log = <<>>

\* C12: no turn runs on a question longer than the maximum of 1000 characters,
\* whichever the entry point.
C12_OversizedNeverStartsTurn ==
    \A w \in Workers : turn[w].pc # "idle" => Len(turn[w].input) <= MAX_LENGTH

\* C13: a turn whose retrieval returned no chunk goes on to synthesis like any
\* other: the answering chain can be run, its answer can be committed, and
\* the commit appends Human(input), AI(answer) to the history the turn loaded.
C13_EmptyContextStillAnswers ==
    /\ (/\ turn[API].pc = "synthesizing"
        /\ turn[API].context = <<>>
        /\ Len(log) + Answering < MaxTurns) => ENABLED Synthesize(API)
    /\ (turn[API].pc = "writing" /\ turn[API].context = <<>>) => ENABLED Commit(API)
    /\ (turn[API].pc = "committed" /\ turn[API].context = <<>>) =>
          History = turn[API].chat_history
                      \o <<HumanMessage(turn[API].input), AIMessage(turn[API].answer)>>

C13_Witness ==
    /\ turn[API].pc = "committed"
    /\ turn[API].context = <<>>
    /\ Truthy(turn[API].answer)

\* C14: a turn goes through its stages in the order contextualizing,
\* retrieving, synthesizing, (writing,) committed, or fails out of a stage;
\* chat_history changes only in the commit of a turn that has its answer; and
\* with a non-empty loaded history the retriever is given what the model
\* returned as standalone question.
StageOrder ==
    {<<"idle", "contextualizing">>, <<"contextualizing", "retrieving">>,
     <<"retrieving", "synthesizing">>, <<"synthesizing", "writing">>,
     <<"writing", "committed">>, <<"contextualizing", "failed">>,
     <<"retrieving", "failed">>, <<"synthesizing", "failed">>,
     <<"committed", "idle">>, <<"failed", "idle">>}

C14_Step ==
    /\ turn'[API].pc # turn[API].pc => <<turn[API].pc, turn'[API].pc>> \in StageOrder
    /\ History' # History =>
          /\ turn[API].pc = "writing"
          /\ turn'[API].pc = "committed"
          /\ History' = History \o <<HumanMessage(turn[API].input), AIMessage(turn[API].answer)>>

C14_State ==
    (/\ turn[API].pc \in {"retrieving", "synthesizing", "writing", "committed"}
     /\ turn[API].chat_history # <<>>) =>
        /\ turn[API].reformulations = 1
        /\ turn[API].query = turn[API].standalone

C14_StagesInOrder == [](C14_State) /\ [][C14_Step]_vars

C14_Witness ==
    /\ turn[API].pc = "committed"
    /\ turn[API].chat_history # <<>>
    /\ turn[API].query # turn[API].input

\* C15: on a turn that loaded an empty chat_history the retriever is given the
\* input itself and the model is not called to reformulate.
C15_FirstTurnNotReformulated ==
    (turn[API].pc \notin {"idle", "contextualizing"} /\ turn[API].chat_history = <<>>) =>
        /\ turn[API].query = turn[API].input
        /\ turn[API].reformulations = 0

C15_Witness ==
    /\ turn[API].pc = "retrieving"
    /\ turn[API].chat_history = <<>>
    /\ Truthy(turn[API].query)

\* C16 (as claimed): the question put to the answering chain is the standalone
\* question the retriever was given.
C16_AnswersStandaloneQuestion ==
    turn[API].pc \in {"writing", "committed"} => turn[API].asked = turn[API].query

\* C16 (amended): the question put to the answering chain is the raw input of
\* the turn, also when the standalone question differs from it.
C16_AnswersRawInput ==
    turn[API].pc \in {"writing", "committed"} => turn[API].asked = turn[API].input

C16_Witness ==
    /\ turn[API].pc = "writing"
    /\ turn[API].query # turn[API].input

IsPrefix(a, b) == Len(a) <= Len(b) /\ SubSeq(b, 1, Len(a)) = a

\* C17: no step removes, replaces or reorders a message: chat_history before
\* a step is a prefix of chat_history after it.
C17_Step == IsPrefix(History, History')

C17_AppendOnly == [][C17_Step]_vars

C17_Witness ==
    /\ req.pc = "idle"
    /\ Len(History) = 4
    /\ History[2] # History[4]

\* C18: a turn that has started ends, committed or failed.
C18_TurnEnds ==
    (turn[API].pc \in {"contextualizing", "retrieving", "synthesizing"})
        ~> (turn[API].pc \in {"committed", "failed"})

\* C19: once the caller of a request in flight has disconnected, chat_history
\* is not changed any more on behalf of that request.
C19_Step == (req.pc = "running" /\ req.cancelled) => History' = History

C19_CancelledNeverCommits == [][C19_Step]_vars

\* C20: the messages of every Streamlit session alternate user, assistant,
\* starting with user, and between two script runs every user message has its
\* assistant message.
C20_MessagesAlternate ==
    \A s \in Sessions :
        /\ \A i \in 1..Len(messages[s]) :
              messages[s][i].role = (IF i % 2 = 1 THEN "user" ELSE "assistant")
        /\ ui[s] = "idle" => Len(messages[s]) % 2 = 0

IsSuccess(r) == r.status = "success"

IsSuffix(a, b) == Len(a) <= Len(b) /\ SubSeq(b, Len(b) - Len(a) + 1, Len(b)) = a

\* C21: a batch is processed in list order, one item after the other: the
\* turn of an item starts when the turns of all items before it have ended,
\* on the history they left; the chat_history ends with the (Human, AI) pairs
\* of the items answered so far, in the order of the list, and a failed item
\* has added nothing.
C21_State ==
    (req.endpoint = "batch" /\ turn[API].pc # "committed") =>
        IsSuffix(PairsOf(SelectSeq(req.results, IsSuccess)), History)

C21_Step ==
    (req.endpoint = "batch" /\ turn[API].pc = "idle" /\ turn'[API].pc # "idle") =>
        /\ turn'[API].input = req.items[Len(req.results) + 1].question
        /\ turn'[API].chat_history = History
        /\ History' = History

C21_BatchInListOrder == [](C21_State) /\ [][C21_Step]_vars

C21_Witness ==
    /\ req.endpoint = "batch"
    /\ req.pc = "responded"
    /\ Len(req.results) = BATCH_LIMIT
    /\ req.results[1].status = "error"
    /\ req.results[2].status = "success"
    /\ req.results[3].status = "success"
    /\ req.results[2].answer # req.results[3].answer

\* C22: no response marked "success" carries an empty answer, on /chat,
\* /chatbot, /ask and in the results of /chat/batch.
C22_NoEmptySuccess ==
    /\ (req.pc = "responded" /\ req.endpoint # "batch" /\ req.status = "success") =>
          Truthy(req.answer)
    /\ \A i \in 1..Len(req.results) :
          req.results[i].status = "success" => Truthy(req.results[i].answer)

====
